---- MODULE Spec2Model ----
(***************************************************************************)
(* Model of the pad model of MyPads (src/model/pad.js): pad.set, pad.del   *)
(* and their internal continuations assignProps, checkSet, fn.set and      *)
(* indexGroups, running as interleaved callback chains over the key/value  *)
(* store.  Every store operation is one step; the code that runs in its    *)
(* callback, up to the next store operation, belongs to the same step.     *)
(***************************************************************************)
EXTENDS Integers, Sequences, FiniteSets, TLC

VARIABLES padDb, groupDb, userDb, proc, nextId, known, started, faults,
          tokens, ends, now, ticks, tok, issued, auth, api, pure

tokenVars == <<tokens, ends, now, ticks, tok, issued>>

vars == <<padDb, groupDb, userDb, proc, nextId, known, started, faults,
          tokenVars, auth, api, pure>>

(***************************************************************************)
(* Bounds                                                                  *)
(***************************************************************************)
NCalls == 2        \* call slots that may be in progress at the same time
MaxCalls == 2      \* calls started in one behaviour
MaxFaults == 1     \* store operations that answer with an error

Calls == 1..NCalls

(***************************************************************************)
(* JavaScript values.  Strings are TLA+ strings; the values that are not   *)
(* strings are written with a leading '#'.                                 *)
(***************************************************************************)
JsUndefined == "#undefined"
JsNull == "#null"
JsTrue == "#true"
JsFalse == "#false"
JsNumber == "#42"
NonStrings == {JsUndefined, JsNull, JsTrue, JsFalse, JsNumber}

isString(v) == v \notin NonStrings
isBoolean(v) == v \in {JsTrue, JsFalse}

RECURSIVE filterStrings(_)
filterStrings(s) ==
  IF s = <<>> THEN <<>>
  ELSE IF isString(Head(s)) THEN <<Head(s)>> \o filterStrings(Tail(s))
       ELSE filterStrings(Tail(s))

RECURSIVE pull(_, _)
pull(s, x) ==
  IF s = <<>> THEN <<>>
  ELSE IF Head(s) = x THEN pull(Tail(s), x)
       ELSE <<Head(s)>> \o pull(Tail(s), x)

includes(s, x) == \E i \in 1..Len(s) : s[i] = x

Range(s) == {s[i] : i \in 1..Len(s)}

(***************************************************************************)
(* The key/value store, one map per key prefix.                            *)
(***************************************************************************)
Has(db, k) == k \in DOMAIN db
Put(db, k, v) == [x \in (DOMAIN db) \cup {k} |-> IF x = k THEN v ELSE db[x]]
Remove(db, k) == [x \in (DOMAIN db) \ {k} |-> db[x]]

\* common.checkExistence and common.checkMultiExist
common_checkExistence(db, key) == Has(db, key)
common_checkMultiExist(db, keys) == \A k \in keys : Has(db, k)

\* storage.db.get: the record under the key, or the NotFound error
db_get_err(db, key) == IF Has(db, key) THEN "#null" ELSE "NotFound"

cuid(n) == "c" \o ToString(n)

NoErr == "#null"
ErrStore == "store error"
ErrNotFound == "NotFound"
ErrPadMissing == "pad does not exist"
ErrUsers == "some users not found"
ErrCallback == "callback must be a function"
ErrField == "param is required"

NoPad ==
  [_id |-> JsUndefined, name |-> JsUndefined, group |-> JsUndefined,
   users |-> <<>>, visibility |-> JsNull, password |-> JsNull,
   readonly |-> JsNull]

NoGroup ==
  [_id |-> JsUndefined, pads |-> <<>>, visibility |-> JsNull,
   password |-> JsNull, readonly |-> JsNull]

Idle ==
  [pc |-> "idle", kind |-> "none", key |-> JsUndefined, p |-> NoPad,
   g |-> NoGroup, del |-> FALSE, err |-> NoErr, val |-> NoPad, cbs |-> 0,
   thrown |-> FALSE, log |-> <<>>, prev |-> NoPad, isFunction |-> TRUE]

(***************************************************************************)
(* Parameters a caller may pass.                                           *)
(***************************************************************************)
JsArray(s) == [isArray |-> TRUE, items |-> s]
NotArray == [isArray |-> FALSE, items |-> <<>>]

\* the name, group, visibility and users of the calls: a pad of another
\* group with users but no visibility, a pad of a group that has no record,
\* a restricted pad, one with an unknown login, one with no name
Shapes ==
  {<<"Doc", "g2", JsUndefined, JsArray(<<JsNumber, "u1">>)>>,
   <<"Doc", "gX", "restricted", JsArray(<<JsNumber, "u1">>)>>,
   <<"Doc", "g1", "restricted", JsArray(<<JsNumber, "u1">>)>>,
   <<"Doc", "g1", "restricted", JsArray(<<"u1", "nouser">>)>>,
   <<"", "g1", "public", NotArray>>}

\* the ids the callers know: those of the pads handed to a callback
Returned ==
  {proc[c].val._id : c \in {d \in Calls : proc[d].pc = "done" /\ proc[d].kind = "set"
                                          /\ proc[d].err = NoErr /\ ~proc[d].thrown}}
IdArgs == known \cup Returned \cup {JsUndefined}
KeyArgs == known \cup Returned \cup {"cX"}

ParamsSet ==
  {[_id |-> id, name |-> s[1], group |-> s[2], visibility |-> s[3],
    users |-> s[4], password |-> JsUndefined, readonly |-> JsUndefined] :
     id \in IdArgs, s \in Shapes}

truthy(v) == v \notin {JsUndefined, JsNull, JsFalse, ""}

(***************************************************************************)
(* Continuations.  st is the state of one call; each operator gives the    *)
(* state of the call when the code it models has run to its next store     *)
(* operation or to the caller's callback.                                  *)
(***************************************************************************)
callback(st, err, val) ==
  [st EXCEPT !.pc = "done", !.err = err, !.val = val, !.cbs = @ + 1]

throw(st, err) == [st EXCEPT !.pc = "done", !.err = err, !.thrown = TRUE]

\* the record of one store operation of a call: what it was, the error it
\* answered with, and what a read found
logged(st, op, on, err, res) ==
  [st EXCEPT !.log = Append(@, [op |-> op, on |-> on, err |-> err, res |-> res])]

\* assignProps keeping the given users whatever the visibility
\* assignProps filling what params leave out with the values of the group
assignProps_resolve(params) ==
  [_id |-> JsUndefined,
   name |-> params.name,
   group |-> params.group,
   users |-> IF params.visibility = "restricted" /\ params.users.isArray
             THEN filterStrings(params.users.items) ELSE <<>>,
   visibility |-> IF isString(params.visibility)
                     /\ params.visibility \in {"restricted", "private", "public"}
                  THEN params.visibility ELSE "private",
   password |-> IF isString(params.password) THEN params.password ELSE "secret",
   readonly |-> IF isBoolean(params.readonly) THEN params.readonly ELSE JsFalse]

\* assignProps taking the users of a restricted pad as they are given
assignProps_noFilter(params) ==
  [_id |-> JsUndefined,
   name |-> params.name,
   group |-> params.group,
   users |-> IF params.visibility = "restricted" /\ params.users.isArray
             THEN params.users.items ELSE <<>>,
   visibility |-> IF isString(params.visibility)
                     /\ params.visibility \in {"restricted", "private", "public"}
                  THEN params.visibility ELSE JsNull,
   password |-> IF isString(params.password) THEN params.password ELSE JsNull,
   readonly |-> IF isBoolean(params.readonly) THEN params.readonly ELSE JsNull]

assignProps_keepUsers(params) ==
  [_id |-> JsUndefined,
   name |-> params.name,
   group |-> params.group,
   users |-> IF params.users.isArray
             THEN filterStrings(params.users.items) ELSE <<>>,
   visibility |-> IF isString(params.visibility)
                     /\ params.visibility \in {"restricted", "private", "public"}
                  THEN params.visibility ELSE JsNull,
   password |-> IF isString(params.password) THEN params.password ELSE JsNull,
   readonly |-> IF isBoolean(params.readonly) THEN params.readonly ELSE JsNull]

assignProps(params) ==
  [_id |-> JsUndefined,
   name |-> params.name,
   group |-> params.group,
   users |-> IF params.visibility = "restricted" /\ params.users.isArray
             THEN filterStrings(params.users.items) ELSE <<>>,
   visibility |-> IF isString(params.visibility)
                     /\ params.visibility \in {"restricted", "private", "public"}
                  THEN params.visibility ELSE JsNull,
   password |-> IF isString(params.password) THEN params.password ELSE JsNull,
   readonly |-> IF isBoolean(params.readonly) THEN params.readonly ELSE JsNull]

\* the callback handed to indexGroups, dropping the error it is given
indexGroups_callback_swallow(st, err) ==
  IF st.del THEN callback(st, NoErr, NoPad)
  ELSE callback(st, NoErr, st.p)

\* the callback pad.fn.set and pad.del hand to indexGroups
indexGroups_callback(st, err) ==
  IF st.del THEN callback(st, err, NoPad)
  ELSE IF err # NoErr THEN callback(st, err, NoPad)
       ELSE callback(st, NoErr, st.p)

_set(st, g) == [st EXCEPT !.pc = "db.set.group", !.g = g]

_set_cb(st, err) ==
  IF err # NoErr THEN indexGroups_callback(st, err)
  ELSE indexGroups_callback(st, NoErr)

indexGroups(del, st) == [st EXCEPT !.pc = "db.get.group", !.del = del]

\* indexGroups leaving the id in the index on removal
indexGroups_cb_noPull(st, err, g) ==
  IF err # NoErr THEN indexGroups_callback(st, err)
  ELSE IF st.del THEN _set(st, g)
       ELSE IF ~includes(g.pads, st.p._id)
            THEN _set(st, [g EXCEPT !.pads = Append(@, st.p._id)])
            ELSE indexGroups_callback(st, NoErr)

\* indexGroups rewriting the group without the new id
indexGroups_cb_noPush(st, err, g) ==
  IF err # NoErr THEN indexGroups_callback(st, err)
  ELSE IF st.del THEN _set(st, [g EXCEPT !.pads = pull(@, st.p._id)])
       ELSE IF ~includes(g.pads, st.p._id)
            THEN _set(st, g)
            ELSE indexGroups_callback(st, NoErr)

\* indexGroups writing the group whether the id is in its pads or not
indexGroups_cb_rewrite(st, err, g) ==
  IF err # NoErr THEN indexGroups_callback(st, err)
  ELSE IF st.del THEN _set(st, [g EXCEPT !.pads = pull(@, st.p._id)])
       ELSE IF ~includes(g.pads, st.p._id)
            THEN _set(st, [g EXCEPT !.pads = Append(@, st.p._id)])
            ELSE _set(st, g)

\* indexGroups adding the id whether it is in the pads or not
indexGroups_cb_noIncludes(st, err, g) ==
  IF err # NoErr THEN indexGroups_callback(st, err)
  ELSE IF st.del THEN _set(st, [g EXCEPT !.pads = pull(@, st.p._id)])
       ELSE _set(st, [g EXCEPT !.pads = Append(@, st.p._id)])

indexGroups_cb(st, err, g) ==
  IF err # NoErr THEN indexGroups_callback(st, err)
  ELSE IF st.del THEN _set(st, [g EXCEPT !.pads = pull(@, st.p._id)])
       ELSE IF ~includes(g.pads, st.p._id)
            THEN _set(st, [g EXCEPT !.pads = Append(@, st.p._id)])
            ELSE indexGroups_callback(st, NoErr)

fn_set(st) == [st EXCEPT !.pc = "db.set.pad"]

\* pad.fn.set going on to the index whatever the pad write answered
fn_set_cb_noCheck(st, err) == indexGroups(FALSE, st)

fn_set_cb(st, err) ==
  IF err # NoErr THEN callback(st, err, NoPad)
  ELSE indexGroups(FALSE, st)

checkSet(st) ==
  IF Len(st.p.users) > 0 THEN [st EXCEPT !.pc = "checkMultiExist"]
  ELSE fn_set(st)

\* checkSet going on to the write whatever the users check found
checkSet_cb_ignoreRes(st, err, res) ==
  IF err # NoErr THEN callback(st, err, NoPad)
  ELSE fn_set(st)

checkSet_cb(st, err, res) ==
  IF err # NoErr THEN callback(st, err, NoPad)
  ELSE IF ~res THEN callback(st, ErrUsers, NoPad)
       ELSE fn_set(st)

\* pad.set going on whether the pad exists or not
pad_set_cb_noExist(st, err, res) ==
  IF err # NoErr THEN callback(st, err, NoPad)
  ELSE checkSet(st)

pad_set_cb(st, err, res) ==
  IF err # NoErr THEN callback(st, err, NoPad)
  ELSE IF ~res THEN callback(st, ErrPadMissing, NoPad)
       ELSE checkSet(st)

\* pad.del going on to the index whatever getDel answered
pad_del_cb_ignoreErr(st, err, obj) ==
  indexGroups(TRUE, [st EXCEPT !.p = obj])

pad_del_cb(st, err, obj) ==
  IF err # NoErr THEN callback(st, err, NoPad)
  ELSE indexGroups(TRUE, [st EXCEPT !.p = obj])

\* common.addSetInit: the first required field that is not a non-empty string
addSetInit(params) ==
  \A f \in {"name", "group"} : isString(params[f]) /\ params[f] # ""

(***************************************************************************)
(* Operations.                                                             *)
(***************************************************************************)
Fault == IF faults < MaxFaults THEN {FALSE, TRUE} ELSE {FALSE}
Err(fail) == IF fail THEN ErrStore ELSE NoErr
Count(fail) == faults + (IF fail THEN 1 ELSE 0)

Free(c) == proc[c].pc \in {"idle", "done"}

\* a call starts in the first free slot, whose last result the caller has taken
Begin(c) ==
  /\ Free(c)
  /\ \A d \in Calls : d < c => ~Free(d)
  /\ started < MaxCalls
  /\ started' = started + 1
  /\ known' = known \cup Returned

\* pad.set(params, callback), up to its first store operation
pad_set(c, params) ==
  /\ Begin(c)
  /\ LET st == [Idle EXCEPT !.kind = "set", !.key = params._id] IN
       IF ~addSetInit(params)
       THEN /\ proc' = [proc EXCEPT ![c] = throw(st, ErrField)]
            /\ nextId' = nextId
       ELSE IF truthy(params._id)
            THEN /\ proc' = [proc EXCEPT ![c] =
                       [st EXCEPT !.p = [assignProps(params) EXCEPT !._id = params._id],
                                  !.pc = "checkExistence"]]
                 /\ nextId' = nextId
            ELSE /\ proc' = [proc EXCEPT ![c] =
                       checkSet([st EXCEPT !.p = [assignProps(params)
                                                  EXCEPT !._id = cuid(nextId)]])]
                 /\ nextId' = nextId + 1
  /\ UNCHANGED <<padDb, groupDb, userDb, faults, tokenVars, auth, api, pure>>

\* pad.del going to the store whatever callback is
pad_del_noCheck(c, key, isFunction) ==
  /\ Begin(c)
  /\ proc' = [proc EXCEPT ![c] =
                [Idle EXCEPT !.kind = "del", !.key = key,
                             !.isFunction = isFunction, !.pc = "getDel.get"]]
  /\ UNCHANGED <<padDb, groupDb, userDb, nextId, faults, tokenVars, auth, api, pure>>

\* pad.del(key, callback), up to its first store operation
pad_del(c, key, isFunction) ==
  /\ Begin(c)
  /\ LET st == [Idle EXCEPT !.kind = "del", !.key = key,
                           !.isFunction = isFunction] IN
       proc' = [proc EXCEPT ![c] =
                  IF ~isFunction THEN throw(st, ErrCallback)
                  ELSE [st EXCEPT !.pc = "getDel.get"]]
  /\ UNCHANGED <<padDb, groupDb, userDb, nextId, faults, tokenVars, auth, api, pure>>

\* common.checkExistence(PPREFIX + p._id, ...) and its callback in pad.set
checkExistence(c) ==
  /\ proc[c].pc = "checkExistence"
  /\ \E fail \in Fault :
       LET res == common_checkExistence(padDb, proc[c].p._id)
           st == logged(proc[c], "exists", "pad", Err(fail), res) IN
       /\ proc' = [proc EXCEPT ![c] = pad_set_cb(st, Err(fail), res)]
       /\ faults' = Count(fail)
  /\ UNCHANGED <<padDb, groupDb, userDb, nextId, known, started, tokenVars, auth, api, pure>>

\* common.checkMultiExist(keys, ...) and its callback in checkSet
checkMultiExist(c) ==
  /\ proc[c].pc = "checkMultiExist"
  /\ \E fail \in Fault :
       LET res == common_checkMultiExist(userDb, Range(proc[c].p.users))
           st == logged(proc[c], "exists", "user", Err(fail), res) IN
       /\ proc' = [proc EXCEPT ![c] = checkSet_cb(st, Err(fail), res)]
       /\ faults' = Count(fail)
  /\ UNCHANGED <<padDb, groupDb, userDb, nextId, known, started, tokenVars, auth, api, pure>>

\* storage.db.set(PPREFIX + p._id, p, ...) and its callback in pad.fn.set
db_set_pad(c) ==
  /\ proc[c].pc = "db.set.pad"
  /\ \E fail \in Fault :
       LET replaced == IF Has(padDb, proc[c].p._id) THEN padDb[proc[c].p._id] ELSE NoPad
           st == logged([proc[c] EXCEPT !.prev = replaced], "set", "pad", Err(fail), TRUE) IN
       /\ padDb' = IF fail THEN padDb ELSE Put(padDb, st.p._id, st.p)
       /\ proc' = [proc EXCEPT ![c] = fn_set_cb(st, Err(fail))]
       /\ faults' = Count(fail)
  /\ UNCHANGED <<groupDb, userDb, nextId, known, started, tokenVars, auth, api, pure>>

\* storage.db.get(GPREFIX + pad.group, ...) and its callback in indexGroups
db_get_group(c) ==
  /\ proc[c].pc = "db.get.group"
  /\ \E fail \in Fault :
       LET found == Has(groupDb, proc[c].p.group)
           err == IF fail THEN ErrStore ELSE db_get_err(groupDb, proc[c].p.group)
           g == IF found THEN groupDb[proc[c].p.group] ELSE NoGroup
           st == logged(proc[c], "get", "group", err, found) IN
       /\ proc' = [proc EXCEPT ![c] = indexGroups_cb(st, err, g)]
       /\ faults' = Count(fail)
  /\ UNCHANGED <<padDb, groupDb, userDb, nextId, known, started, tokenVars, auth, api, pure>>

\* storage.db.set(GPREFIX + g._id, g, ...) and its callback in _set
db_set_group(c) ==
  /\ proc[c].pc = "db.set.group"
  /\ \E fail \in Fault :
       LET st == logged(proc[c], "set", "group", Err(fail), TRUE) IN
       /\ groupDb' = IF fail THEN groupDb ELSE Put(groupDb, st.g._id, st.g)
       /\ proc' = [proc EXCEPT ![c] = _set_cb(st, Err(fail))]
       /\ faults' = Count(fail)
  /\ UNCHANGED <<padDb, userDb, nextId, known, started, tokenVars, auth, api, pure>>

\* common.getDel(true, PPREFIX, key, ...): the read
getDel_get(c) ==
  /\ proc[c].pc = "getDel.get"
  /\ \E fail \in Fault :
       LET found == Has(padDb, proc[c].key)
           err == IF fail THEN ErrStore ELSE db_get_err(padDb, proc[c].key)
           st == logged(proc[c], "get", "pad", err, found) IN
       /\ proc' = [proc EXCEPT ![c] =
            IF err # NoErr THEN pad_del_cb(st, err, NoPad)
            ELSE [st EXCEPT !.pc = "getDel.remove", !.p = padDb[st.key]]]
       /\ faults' = Count(fail)
  /\ UNCHANGED <<padDb, groupDb, userDb, nextId, known, started, tokenVars, auth, api, pure>>

\* common.getDel(true, PPREFIX, key, ...): the removal, and pad.del's callback
getDel_remove(c) ==
  /\ proc[c].pc = "getDel.remove"
  /\ \E fail \in Fault :
       LET st == logged(proc[c], "remove", "pad", Err(fail), TRUE) IN
       /\ padDb' = IF fail THEN padDb ELSE Remove(padDb, st.key)
       /\ proc' = [proc EXCEPT ![c] = pad_del_cb(st, Err(fail), st.p)]
       /\ faults' = Count(fail)
  /\ UNCHANGED <<groupDb, userDb, nextId, known, started, tokenVars, auth, api, pure>>

(***************************************************************************)
(* Invitation tokens (mail.genToken, mail.isValidToken): two maps in       *)
(* memory, keyed by token, and the clock Date.now() reads.                 *)
(***************************************************************************)
MaxTokenOps == 3   \* calls of genToken and isValidToken in one behaviour
MaxTicks == 2      \* advances of the clock in one behaviour

DefaultDuration == 60
MsPerMinute == 60 * 1000

\* conf.get('tokenDuration'): nothing configured, or a number of minutes
NoConf == [isNumber |-> FALSE, num |-> 0]
ConfArgs == {NoConf, [isNumber |-> TRUE, num |-> 0], [isNumber |-> TRUE, num |-> 1]}

\* the values handed to genToken: none, null, an invitation
ValueArgs == {JsUndefined, JsNull, "invitation"}

\* the clock moves on by a minute or by 59 minutes
TickArgs == {MsPerMinute, 59 * MsPerMinute}

\* parseFloat(conf.get('tokenDuration')) || 60
duration(cfg) ==
  IF cfg.isNumber /\ cfg.num # 0 THEN cfg.num ELSE DefaultDuration

NoTok ==
  [n |-> 0, op |-> "none", arg |-> JsUndefined, val |-> JsUndefined,
   thrown |-> FALSE, at |-> 0]

ErrParams == "BACKEND.ERROR.TYPE.PARAMS_REQUIRED"

\* genToken turning down every value that is not truthy
genToken_throws_falsy(value) == ~truthy(value)

\* ld.isUndefined(value): genToken throws
genToken_throws(value) == value = JsUndefined

\* mail.genToken(value)
mail_genToken(value, cfg) ==
  /\ tok.n < MaxTokenOps
  /\ IF genToken_throws(value)
     THEN /\ tok' = [n |-> tok.n + 1, op |-> "genToken", arg |-> value,
                     val |-> ErrParams, thrown |-> TRUE, at |-> now]
          /\ UNCHANGED <<tokens, ends, issued, nextId>>
     ELSE LET ts == now
              end == ts + duration(cfg) * 60 * 1000
              token == cuid(nextId) IN
          /\ tokens' = Put(tokens, token, value)
          /\ ends' = Put(ends, token, end)
          /\ issued' = Put(issued, token, [at |-> ts, cfg |-> cfg])
          /\ nextId' = nextId + 1
          /\ tok' = [n |-> tok.n + 1, op |-> "genToken", arg |-> value,
                     val |-> token, thrown |-> FALSE, at |-> now]
  /\ UNCHANGED <<padDb, groupDb, userDb, proc, known, started, faults,
                 now, ticks, auth, api, pure>>

\* mail.tokens[token] && (Date.now() < mail.ends[token])
isValidToken(token) ==
  IF ~Has(tokens, token) THEN JsUndefined
  ELSE IF ~truthy(tokens[token]) THEN tokens[token]
       ELSE IF now < ends[token] THEN JsTrue ELSE JsFalse

\* mail.isValidToken(token)
mail_isValidToken(token) ==
  /\ tok.n < MaxTokenOps
  /\ tok' = [n |-> tok.n + 1, op |-> "isValidToken", arg |-> token,
             val |-> isValidToken(token), thrown |-> FALSE, at |-> now]
  /\ UNCHANGED <<padDb, groupDb, userDb, proc, nextId, known, started, faults,
                 tokens, ends, issued, now, ticks, auth, api, pure>>

\* Date.now() has moved on
Tick(d) ==
  /\ ticks < MaxTicks
  /\ ticks' = ticks + 1
  /\ now' = now + d
  /\ UNCHANGED <<padDb, groupDb, userDb, proc, nextId, known, started, faults,
                 tokens, ends, issued, tok, auth, api, pure>>

(***************************************************************************)
(* auth.fn.localFn: the check of a login and a password.  One check runs   *)
(* at a time; auth is its state: the user record read, the calls made of   *)
(* the caller's callback in order, and the hash comparisons done.          *)
(***************************************************************************)
MaxLogins == 2     \* calls of auth.fn.localFn in one behaviour

ErrPassword == "password is not correct"

NoUser == [login |-> "", password |-> [salt |-> "", hash |-> ""]]
NoAuth ==
  [pc |-> "idle", n |-> 0, login |-> "", password |-> "", u |-> NoUser,
   calls |-> <<>>, compared |-> 0, thrown |-> FALSE, hashErr |-> FALSE]

LoginArgs == {"u1", "u2", "uX"}
PasswordArgs == {"pw-u1", "pw-u2", "bad", ""}

\* user.fn.hashPassword(salt, password, ...): the salted hash of a password
hashPassword(salt, password) ==
  [defined |-> TRUE, salt |-> salt, hash |-> "h(" \o salt \o "," \o password \o ")"]
NoRes == [defined |-> FALSE, salt |-> "", hash |-> ""]

\* the caller's callback(err, res): res is false, undefined or the object u
auth_callback(st, err, res, u) ==
  [st EXCEPT !.calls = Append(@, [err |-> err, res |-> res, u |-> u])]

\* ld.omit(user, 'password')
omit_password(u) == [u EXCEPT !.password = NoUser.password]

\* localFn whose callback takes any password as the right one
localFn_cb_anyPassword(st, err, isValid) ==
  IF err # NoErr THEN auth_callback(st, err, JsUndefined, NoUser)
  ELSE auth_callback(st, NoErr, "#object", st.u)

\* localFn handing the record over without its password
localFn_cb_omit(st, err, isValid) ==
  IF err # NoErr THEN auth_callback(st, err, JsUndefined, NoUser)
  ELSE IF ~isValid THEN auth_callback(st, ErrPassword, JsFalse, NoUser)
  ELSE auth_callback(st, NoErr, "#object", omit_password(st.u))

\* function (err, isValid) given by localFn to isPasswordValid
localFn_cb(st, err, isValid) ==
  IF err # NoErr THEN auth_callback(st, err, JsUndefined, NoUser)
  ELSE IF ~isValid THEN auth_callback(st, ErrPassword, JsFalse, NoUser)
  ELSE auth_callback(st, NoErr, "#object", st.u)

\* function (err, res) given by isPasswordValid to hashPassword: after
\* callback(err) the comparison of res.hash is still made
isPasswordValid_cb(st, err, res) ==
  LET s1 == IF err # NoErr THEN localFn_cb(st, err, FALSE) ELSE st
      s2 == [s1 EXCEPT !.pc = "done", !.hashErr = err # NoErr] IN
    IF ~res.defined THEN [s2 EXCEPT !.thrown = TRUE]
    ELSE localFn_cb([s2 EXCEPT !.compared = @ + 1], NoErr,
                    res.hash = st.u.password.hash)

\* function (err, u) given by localFn to user.get
localFn_get_cb(st, err, u) ==
  IF err # NoErr
  THEN auth_callback([st EXCEPT !.pc = "done"], err, JsUndefined, NoUser)
  ELSE [st EXCEPT !.u = u, !.pc = "hashPassword"]

\* auth.fn.localFn(login, password, callback), up to user.get
auth_localFn(login, password) ==
  /\ auth.pc \in {"idle", "done"}
  /\ auth.n < MaxLogins
  /\ auth' = [NoAuth EXCEPT !.pc = "user.get", !.n = auth.n + 1,
                            !.login = login, !.password = password]
  /\ UNCHANGED <<padDb, groupDb, userDb, proc, nextId, known, started, faults,
                 tokenVars, api, pure>>

\* user.get(login, ...) and its callback in localFn
user_get ==
  /\ auth.pc = "user.get"
  /\ \E fail \in Fault :
       LET err == IF fail THEN ErrStore
                  ELSE IF ~Has(userDb, auth.login) THEN ErrNotFound ELSE NoErr
           u == IF err = NoErr THEN userDb[auth.login] ELSE NoUser IN
       /\ auth' = localFn_get_cb(auth, err, u)
       /\ faults' = Count(fail)
  /\ UNCHANGED <<padDb, groupDb, userDb, proc, nextId, known, started,
                 tokenVars, api, pure>>

\* user.fn.hashPassword(u.password.salt, password, ...) and its callback in
\* isPasswordValid; on an error res is undefined or the hash, as hashPassword
\* hands it
user_fn_hashPassword ==
  /\ auth.pc = "hashPassword"
  /\ \E fail \in Fault, defined \in BOOLEAN :
       LET res == IF fail /\ ~defined THEN NoRes
                  ELSE hashPassword(auth.u.password.salt, auth.password) IN
       /\ auth' = isPasswordValid_cb(auth, Err(fail), res)
       /\ faults' = Count(fail)
  /\ UNCHANGED <<padDb, groupDb, userDb, proc, nextId, known, started,
                 tokenVars, api, pure>>

(***************************************************************************)
(* The HTTP API: one session, its requests one after the other.  api holds *)
(* the session (req.session.login, req.isAuthenticated()) and the answer   *)
(* to the last request: its route, its status and the module operation it  *)
(* reached.  granted tells that a login has answered with success and no   *)
(* logout has since.                                                       *)
(***************************************************************************)
MaxRequests == 3   \* requests of the session in one behaviour

NoApi ==
  [n |-> 0, login |-> JsUndefined, isAuthenticated |-> FALSE,
   route |-> "none", status |-> 0, reached |-> "none", granted |-> FALSE,
   before |-> JsUndefined]

\* app.get / app.post / app.put / app.delete of the four APIs: the route, the
\* operation its handler calls, and whether fn.ensureAuthentificated is given
Route(name, op, guarded) == [name |-> name, op |-> op, guarded |-> guarded]
Routes ==
  {Route("GET configuration", "conf.public", FALSE),
   Route("GET configuration/:key", "conf.get", TRUE),
   Route("POST configuration", "conf.set", TRUE),
   Route("PUT configuration/:key", "conf.set", TRUE),
   Route("DELETE configuration/:key", "conf.del", TRUE),
   Route("GET user/:key", "user.get", TRUE),
   Route("POST user", "user.set", FALSE),
   Route("PUT user/:key", "user.set", TRUE),
   Route("DELETE user/:key", "user.del", TRUE),
   Route("GET group/:key", "group.get", TRUE),
   Route("POST group", "group.set", TRUE),
   Route("PUT group/:key", "group.set", TRUE),
   Route("DELETE group/:key", "group.del", TRUE),
   Route("GET pad/:key", "pad.get", TRUE),
   Route("POST pad", "pad.set", TRUE),
   Route("PUT pad/:key", "pad.set", TRUE),
   Route("DELETE pad/:key", "pad.del", TRUE)}

\* the status a handler answers with when the operation hands an error:
\* 404 from fn.get, conf.get and fn.del, 400 from fn.set and conf.all/public
failStatus(op) ==
  IF op \in {"conf.get", "user.get", "group.get", "pad.get",
             "conf.del", "user.del", "group.del", "pad.del"}
  THEN 404 ELSE 400

\* req.isAuthenticated() || req.session.login
isAuth(s) == s.isAuthenticated \/ truthy(s.login)

\* a guard that lets every request go on
ensureAuthentificated_open(s) == TRUE

\* fn.ensureAuthentificated: TRUE when next() is called, FALSE when it
\* answers 401
ensureAuthentificated(s) == ~(~s.isAuthenticated /\ ~truthy(s.login))

\* a request to a route of the configuration, user, group or pad API; the
\* module operation answers with an error or not
api_request(route, fail) ==
  /\ api.n < MaxRequests
  /\ LET passes == ~route.guarded \/ ensureAuthentificated(api)
         op == IF route.op = "conf.public" /\ isAuth(api) THEN "conf.all"
               ELSE route.op IN
       api' = [api EXCEPT !.n = @ + 1, !.route = route.name,
                          !.before = api.login,
                          !.status = IF ~passes THEN 401
                                     ELSE IF fail THEN failStatus(op) ELSE 200,
                          !.reached = IF passes THEN op ELSE "none"]
  /\ UNCHANGED <<padDb, groupDb, userDb, proc, nextId, known, started, faults,
                 tokenVars, auth, pure>>

\* POST auth/login: passport.authenticate hands the user when localFn
\* succeeds; req.login(user, ...) calls back with an error or not
api_login(login, password, loginErr) ==
  /\ api.n < MaxRequests
  /\ LET found == /\ Has(userDb, login)
                  /\ hashPassword(userDb[login].password.salt, password).hash
                       = userDb[login].password.hash
         s == [api EXCEPT !.n = @ + 1, !.route = "POST auth/login",
                          !.before = api.login, !.reached = "none"] IN
       api' = IF ~found THEN [s EXCEPT !.status = 400]
              ELSE IF loginErr
              THEN [s EXCEPT !.login = userDb[login].login, !.status = 400]
              ELSE [s EXCEPT !.login = userDb[login].login,
                             !.isAuthenticated = TRUE, !.status = 200,
                             !.granted = TRUE]
  /\ UNCHANGED <<padDb, groupDb, userDb, proc, nextId, known, started, faults,
                 tokenVars, auth, pure>>

\* GET auth/logout
api_logout ==
  /\ api.n < MaxRequests
  /\ LET s == [api EXCEPT !.n = @ + 1, !.route = "GET auth/logout",
                          !.before = api.login, !.reached = "none"] IN
       api' = IF isAuth(api)
              THEN [s EXCEPT !.isAuthenticated = FALSE, !.login = JsUndefined,
                             !.status = 200, !.granted = FALSE]
              ELSE [s EXCEPT !.status = 400]
  /\ UNCHANGED <<padDb, groupDb, userDb, proc, nextId, known, started, faults,
                 tokenVars, auth, pure>>

(***************************************************************************)
(* pad.fn.assignProps on its own: pure holds the params it is given and    *)
(* the object it returns.                                                  *)
(***************************************************************************)
MaxUsers == 2      \* entries of params.users
MaxApplies == 2    \* calls of assignProps on the same params

UserItems == {JsNumber, "u1", "u2"}
UsersArgs ==
  {NotArray} \cup
  {JsArray(items) : items \in UNION {[1..n -> UserItems] : n \in 0..MaxUsers}}
VisibilityArgs == {"restricted", "private", "public", "Restricted", JsUndefined, JsNull}
PropsArgs ==
  {[_id |-> JsUndefined, name |-> "Doc", group |-> "g1", visibility |-> v,
    users |-> u, password |-> pw, readonly |-> ro] :
     v \in VisibilityArgs, u \in UsersArgs,
     pw \in {JsUndefined, "secret", JsNumber},
     ro \in {JsUndefined, JsTrue, JsFalse, "yes"}}

NoPure ==
  [params |-> [_id |-> JsUndefined, name |-> JsUndefined, group |-> JsUndefined,
               visibility |-> JsUndefined, users |-> NotArray,
               password |-> JsUndefined, readonly |-> JsUndefined],
   out |-> NoPad, n |-> 0]

\* pad.fn.assignProps(params)
pad_fn_assignProps ==
  /\ pure.n < MaxApplies
  /\ pure' = [pure EXCEPT !.out = assignProps(pure.params), !.n = @ + 1]
  /\ UNCHANGED <<padDb, groupDb, userDb, proc, nextId, known, started, faults,
                 tokenVars, auth, api>>

Group(id, pads) ==
  [_id |-> id, pads |-> pads, visibility |-> "private", password |-> "secret",
   readonly |-> JsFalse]

\* the password of a user is "pw-" and the login
User(login) ==
  [login |-> login,
   password |-> [salt |-> "salt-" \o login,
                 hash |-> hashPassword("salt-" \o login, "pw-" \o login).hash]]

\* a pad made before the behaviour starts, indexed by its group
Pad0 ==
  [_id |-> "c0", name |-> "Doc", group |-> "g1", users |-> <<>>,
   visibility |-> "public", password |-> JsNull, readonly |-> JsNull]

Init0 ==
  /\ padDb = [id \in {"c0"} |-> Pad0]
  /\ groupDb = [id \in {"g1", "g2"} |->
                  Group(id, IF id = "g1" THEN <<"c0">> ELSE <<>>)]
  /\ userDb = [login \in {"u1", "u2"} |-> User(login)]
  /\ proc = [c \in Calls |-> Idle]
  /\ nextId = 1
  /\ known = {"c0"}
  /\ started = 0
  /\ faults = 0
  /\ tokens = <<>>
  /\ ends = <<>>
  /\ issued = <<>>
  /\ now = 0
  /\ ticks = 0
  /\ tok = NoTok
  /\ auth = NoAuth
  /\ api = NoApi

Init == Init0 /\ pure = NoPure

\* assignProps is given any of the params
InitProps == Init0 /\ \E params \in PropsArgs : pure = [NoPure EXCEPT !.params = params]

Step(c) ==
  \/ \E params \in ParamsSet : pad_set(c, params)
  \/ \E key \in KeyArgs, isFunction \in BOOLEAN : pad_del(c, key, isFunction)
  \/ checkExistence(c)
  \/ checkMultiExist(c)
  \/ db_set_pad(c)
  \/ db_get_group(c)
  \/ db_set_group(c)
  \/ getDel_get(c)
  \/ getDel_remove(c)

Next == \E c \in Calls : Step(c)

Spec == Init /\ [][Next]_vars

\* one call at a time: a call starts only when no other call is in progress
Alone(c) == \A d \in Calls \ {c} : Free(d)

NextSeq == \E c \in Calls : Alone(c) /\ Step(c)

SpecSeq == Init /\ [][NextSeq]_vars

\* the token issuer on its own
NextToken ==
  \/ \E value \in ValueArgs, cfg \in ConfArgs : mail_genToken(value, cfg)
  \/ \E token \in (DOMAIN tokens) \cup {"cX"} : mail_isValidToken(token)
  \/ \E d \in TickArgs : Tick(d)

SpecToken == Init /\ [][NextToken]_vars

\* the check of credentials on its own
NextAuth ==
  \/ \E login \in LoginArgs, password \in PasswordArgs :
       auth_localFn(login, password)
  \/ user_get
  \/ user_fn_hashPassword

SpecAuth == Init /\ [][NextAuth]_vars

\* the requests of one session on their own
NextApi ==
  \/ \E route \in Routes, fail \in BOOLEAN : api_request(route, fail)
  \/ \E login \in LoginArgs, password \in PasswordArgs, loginErr \in BOOLEAN :
       api_login(login, password, loginErr)
  \/ api_logout

SpecApi == Init /\ [][NextApi]_vars

\* assignProps on its own
NextProps == pad_fn_assignProps

SpecProps == InitProps /\ [][NextProps]_vars

TypeOK ==
  /\ \A c \in Calls : proc[c].cbs \in 0..2
  /\ nextId \in 1..(MaxCalls + 1)
  /\ started \in 0..MaxCalls
  /\ faults \in 0..MaxFaults

(***************************************************************************)
(* Vocabulary of the properties.                                           *)
(***************************************************************************)
Done(c) == proc[c].pc = "done"
Ok(c) == Done(c) /\ proc[c].err = NoErr /\ ~proc[c].thrown
IsSet(c) == proc[c].kind = "set" /\ ~proc[c].thrown
IsCreate(c) == IsSet(c) /\ ~truthy(proc[c].key)
IsUpdate(c) == IsSet(c) /\ truthy(proc[c].key)
IsDel(c) == proc[c].kind = "del" /\ ~proc[c].thrown
Log(c) == proc[c].log
Last(c) == Log(c)[Len(Log(c))]
Ops(c, ops, on) == {i \in DOMAIN Log(c) : Log(c)[i].op \in ops /\ Log(c)[i].on = on}
Writes(c) == {i \in DOMAIN Log(c) : Log(c)[i].op \in {"set", "remove"}}
PadWrites(c) == {i \in Ops(c, {"set"}, "pad") : Log(c)[i].err = NoErr}
Indexed(gid, id) == Has(groupDb, gid) /\ includes(groupDb[gid].pads, id)
Quiet == \A c \in Calls : Free(c)

(***************************************************************************)
(* C1.  Group-index invariant: after any sequence of completed create,     *)
(* update and delete calls, run one at a time from a consistent store,     *)
(* with no store error and the last call a success, every id in a group's  *)
(* pads collection is the id of a stored pad whose group field is that     *)
(* group's id.                                                             *)
(***************************************************************************)
C1_GroupIndexInvariant ==
  (Quiet /\ faults = 0 /\ \A c \in Calls : Done(c) => Ok(c)) =>
    \A gid \in DOMAIN groupDb : \A id \in Range(groupDb[gid].pads) :
      Has(padDb, id) /\ padDb[id].group = gid

(***************************************************************************)
(* C2.  With no other call interleaved, a create that succeeded leaves the *)
(* pad's id in the pads collection of the pad's group, and a delete that   *)
(* succeeded leaves the id out of the pads collection of the deleted pad's  *)
(* group.                                                                  *)
(***************************************************************************)
C2_CreateIndexesDeleteUnindexes ==
  \A c \in Calls :
    /\ (Ok(c) /\ IsCreate(c)) => Indexed(proc[c].val.group, proc[c].val._id)
    /\ (Ok(c) /\ IsDel(c)) =>
         /\ Has(groupDb, proc[c].p.group)
         /\ ~Indexed(proc[c].p.group, proc[c].key)

\* a pad created in this behaviour has been deleted with success
C2_Witness ==
  \E c \in Calls : Ok(c) /\ IsDel(c) /\ proc[c].key = cuid(1)

(***************************************************************************)
(* C3.  A create that passes validation and the users check, for a group   *)
(* id with no group record, fails with NotFound when no store operation    *)
(* errs, and no pad record for the new pad is in the store afterwards.     *)
(***************************************************************************)
C3_CreateMissingGroup ==
  \A c \in Calls :
    ( /\ Done(c) /\ IsCreate(c) /\ faults = 0
      /\ \A u \in Range(proc[c].p.users) : Has(userDb, u)
      /\ ~Has(groupDb, proc[c].p.group) )
    => (proc[c].err = ErrNotFound /\ ~Has(padDb, proc[c].p._id))

(***************************************************************************)
(* C4.  A create or update with restricted visibility and a users list     *)
(* naming a login with no user record fails and issues no write to the     *)
(* store (no pad record, no group record); when the users check is reached *)
(* and answers, the error is 'some users not found'.                       *)
(***************************************************************************)
BadUsers(c) ==
  /\ proc[c].p.visibility = "restricted"
  /\ \E u \in Range(proc[c].p.users) : ~Has(userDb, u)

UsersChecked(c) ==
  /\ Len(Log(c)) > 0
  /\ Last(c).op = "exists" /\ Last(c).on = "user" /\ Last(c).err = NoErr

C4_UnknownUsersRejected ==
  \A c \in Calls :
    (Done(c) /\ IsSet(c) /\ BadUsers(c)) =>
      /\ proc[c].err # NoErr
      /\ Writes(c) = {}
      /\ UsersChecked(c) => proc[c].err = ErrUsers
      /\ (IsCreate(c) /\ faults = 0) => proc[c].err = ErrUsers

\* an update of a stored pad has been turned down for its users
C4_Witness ==
  \E c \in Calls :
    /\ Done(c) /\ IsUpdate(c) /\ BadUsers(c)
    /\ proc[c].err = ErrUsers /\ Has(padDb, proc[c].key)

(***************************************************************************)
(* C5.  Lost update: when the only two calls of a behaviour are creates    *)
(* for the same group that both read the group's pads collection before    *)
(* either wrote it, and both report success, both pad records are stored   *)
(* and the group's pads collection holds exactly one of the two new ids.   *)
(***************************************************************************)
GroupWritten(c) ==
  \E i \in Ops(c, {"set"}, "group") : Log(c)[i].err = NoErr

\* the pads collection a call read, before it added its own id
Base(c) == SubSeq(proc[c].g.pads, 1, Len(proc[c].g.pads) - 1)

Raced(c, d) ==
  /\ c # d /\ started = 2
  /\ Ok(c) /\ IsCreate(c) /\ GroupWritten(c)
  /\ Ok(d) /\ IsCreate(d) /\ GroupWritten(d)
  /\ proc[c].p.group = proc[d].p.group
  /\ Base(c) = Base(d)

C5_LostUpdate ==
  \A c, d \in Calls :
    Raced(c, d) =>
      /\ Has(padDb, proc[c].p._id) /\ Has(padDb, proc[d].p._id)
      /\ Indexed(proc[c].p.group, proc[c].p._id)
           # Indexed(proc[c].p.group, proc[d].p._id)

\* two creates have raced, and the first id is gone from the index
C5_Witness ==
  \E c, d \in Calls :
    /\ Raced(c, d)
    /\ ~Indexed(proc[c].p.group, proc[c].p._id)
    /\ Indexed(proc[c].p.group, proc[d].p._id)

(***************************************************************************)
(* C6.  Within a create or update call, every read or write of the group   *)
(* record comes after a write of the pad record that returned no error,    *)
(* and the index step is pending only after such a write.                  *)
(***************************************************************************)
C6_PadWriteBeforeIndex ==
  \A c \in Calls :
    IsSet(c) =>
      /\ \A i \in DOMAIN Log(c) :
           Log(c)[i].on = "group" => \E j \in PadWrites(c) : j < i
      /\ proc[c].pc \in {"db.get.group", "db.set.group"} => PadWrites(c) # {}

\* a create or update has read and written the group record
C6_Witness ==
  \E c \in Calls : IsSet(c) /\ Done(c) /\ Ops(c, {"set"}, "group") # {}

(***************************************************************************)
(* C7.  Non-atomic persist: with no other call interleaved, when the pad   *)
(* write of a create or update succeeded and the read or the write of the  *)
(* group record then answered with an error, the call reports that error,  *)
(* has removed nothing, and the pad record it wrote is in the store.       *)
(***************************************************************************)
IndexFailed(c) ==
  /\ Done(c) /\ IsSet(c) /\ PadWrites(c) # {}
  /\ Last(c).on = "group" /\ Last(c).err # NoErr

C7_NoRollback ==
  \A c \in Calls :
    IndexFailed(c) =>
      /\ proc[c].err = Last(c).err
      /\ Ops(c, {"remove"}, "pad") = {}
      /\ Has(padDb, proc[c].p._id) /\ padDb[proc[c].p._id] = proc[c].p

\* the write of the group record has failed after the pad was written
C7_Witness ==
  \E c \in Calls : IndexFailed(c) /\ Last(c).op = "set" /\ IsCreate(c)

(***************************************************************************)
(* C8.  A successful update leaves the group field of the stored pad as it *)
(* was: the record it hands back has the group of the record it replaced.  *)
(***************************************************************************)
C8_GroupImmutable ==
  \A c \in Calls :
    (Ok(c) /\ IsUpdate(c) /\ proc[c].prev # NoPad) =>
      proc[c].val.group = proc[c].prev.group

(***************************************************************************)
(* C9.  Every stored pad record has an empty users list unless its         *)
(* visibility is "restricted", and then every login of the list has a user *)
(* record; a create or update writes a pad with a non-empty users list     *)
(* only right after the users check answered that all of them exist.       *)
(***************************************************************************)
UsersValid(r) ==
  /\ r.visibility # "restricted" => r.users = <<>>
  /\ r.visibility = "restricted" => \A u \in Range(r.users) : Has(userDb, u)

C9_UsersInvariant ==
  /\ \A id \in DOMAIN padDb : UsersValid(padDb[id])
  /\ \A c \in Calls :
       (IsSet(c) /\ Len(proc[c].p.users) > 0) =>
         \A i \in Ops(c, {"set"}, "pad") :
           /\ i > 1
           /\ Log(c)[i - 1] =
                [op |-> "exists", on |-> "user", err |-> NoErr, res |-> TRUE]

\* a restricted pad with a user has been written
C9_Witness ==
  \E c \in Calls :
    /\ Ok(c) /\ IsSet(c) /\ proc[c].p.users # <<>>
    /\ Has(padDb, proc[c].p._id) /\ padDb[proc[c].p._id] = proc[c].p

(***************************************************************************)
(* C10.  Per-pad state machine: once a delete of a pad id has completed    *)
(* with success, no pad record is stored under that id (ids of new pads    *)
(* are fresh, so no later create makes it).                                *)
(***************************************************************************)
C10_DeletedStaysDeleted ==
  \A c \in Calls : (Ok(c) /\ IsDel(c)) => ~Has(padDb, proc[c].key)

(***************************************************************************)
(* C11.  isValidToken(token) answers a true value exactly when the token   *)
(* was issued and the clock it read is before the token's expiry, whatever *)
(* value was stored for the token.                                         *)
(***************************************************************************)
Checked == tok.op = "isValidToken"

C11_ValidIffIssuedAndFresh ==
  Checked =>
    (truthy(tok.val) <=> (Has(issued, tok.arg) /\ tok.at < ends[tok.arg]))

(***************************************************************************)
(* C12.  isValidToken answers the same value, false, for a token that was  *)
(* never issued and for a token that was issued and has expired.           *)
(***************************************************************************)
C12_UnknownAndExpiredAlike ==
  (Checked /\ (~Has(issued, tok.arg) \/ tok.at >= ends[tok.arg])) =>
    tok.val = JsFalse

(***************************************************************************)
(* C13.  A token is valid when checked at the time it was issued, and is   *)
(* not valid whenever the clock has reached the issue time plus the        *)
(* configured duration (60 minutes when none is configured).               *)
(***************************************************************************)
configured(cfg) == IF cfg.isNumber THEN cfg.num ELSE 60

C13_RoundTripAndExpiry ==
  (Checked /\ Has(issued, tok.arg) /\ configured(issued[tok.arg].cfg) > 0) =>
    LET i == issued[tok.arg]
        expiresAt == i.at + configured(i.cfg) * MsPerMinute IN
      /\ tok.at = i.at => truthy(tok.val)
      /\ tok.at >= expiresAt => ~truthy(tok.val)

(***************************************************************************)
(* C14.  genToken called with no value throws, hands out no token and      *)
(* leaves both maps as they were; every other call of genToken adds one    *)
(* new key, the token it returns, to both maps.                            *)
(***************************************************************************)
C14_IssueAddsOneKey ==
  [][(tok'.n # tok.n /\ tok'.op = "genToken") =>
       IF tok'.arg = JsUndefined
       THEN tok'.thrown /\ tokens' = tokens /\ ends' = ends
       ELSE /\ ~tok'.thrown
            /\ tok'.val \notin (DOMAIN tokens) \cup (DOMAIN ends)
            /\ DOMAIN tokens' = (DOMAIN tokens) \cup {tok'.val}
            /\ DOMAIN ends' = (DOMAIN ends) \cup {tok'.val}
            /\ tokens'[tok'.val] = tok'.arg]_vars

\* genToken has thrown after it had issued a token
C14_Witness ==
  tok.op = "genToken" /\ tok.thrown /\ DOMAIN tokens # {} /\ DOMAIN tokens = DOMAIN ends

(***************************************************************************)
(* Vocabulary for the check of credentials.                                *)
(***************************************************************************)
Answered == auth.pc = "done"
Answers == {auth.calls[i] : i \in 1..Len(auth.calls)}
\* a store or hash operation of the check has failed
AuthFault == auth.hashErr \/ \E r \in Answers : r.err = ErrStore
Matches(login, password) ==
  /\ Has(userDb, login)
  /\ hashPassword(userDb[login].password.salt, password).hash
       = userDb[login].password.hash

C16_PasswordAbsent ==
  \A r \in Answers : r.err = NoErr => r.u.password = NoUser.password

(***************************************************************************)
(* C16, amended.  When localFn succeeds, the record handed to the caller   *)
(* is the stored user record as it is, its password salt and hash          *)
(* included.                                                               *)
(***************************************************************************)
C16_RecordHandedWhole ==
  \A r \in Answers :
    r.err = NoErr =>
      /\ r.u = userDb[auth.login]
      /\ r.u.password.salt # "" /\ r.u.password.hash # ""

C16_Witness ==
  /\ Answered /\ ~AuthFault
  /\ Matches(auth.login, auth.password)
  /\ Len(auth.calls) = 1 /\ auth.calls[1].err = NoErr

(***************************************************************************)
(* C17.  Store errors are never swallowed: in pad.set, pad.del and localFn,*)
(* when a store operation or the hashing answers with an error, the        *)
(* caller's callback gets that error, once, the call does not report       *)
(* success, and the call does nothing more (no further store operation, no *)
(* comparison of hashes).                                                  *)
(***************************************************************************)
PadErrorsPropagate ==
  \A c \in Calls : \A i \in DOMAIN Log(c) :
    Log(c)[i].err # NoErr =>
      /\ i = Len(Log(c))
      /\ Done(c) /\ ~Ok(c)
      /\ proc[c].err = Log(c)[i].err /\ proc[c].cbs = 1

AuthErrorsPropagate ==
  (Answered /\ AuthFault) =>
    /\ auth.calls = <<[err |-> ErrStore, res |-> JsUndefined, u |-> NoUser]>>
    /\ auth.compared = 0
    /\ ~auth.thrown

C17_ErrorsNeverSwallowed == PadErrorsPropagate /\ AuthErrorsPropagate

(***************************************************************************)
(* C18.  Validation errors come before any store operation: pad.set with a *)
(* name or group that is missing or empty, and pad.del with a callback     *)
(* that is not a function, throw at once, with no store read, write or     *)
(* remove issued and the callback not called.                              *)
(***************************************************************************)
C18_ValidationBeforeIO ==
  \A c \in Calls :
    /\ proc[c].thrown => Done(c) /\ Log(c) = <<>> /\ proc[c].cbs = 0
    /\ (proc[c].kind = "del" /\ ~proc[c].isFunction) =>
         proc[c].thrown /\ proc[c].err = ErrCallback
    /\ (proc[c].kind = "set" /\ proc[c].thrown) => proc[c].err = ErrField
    /\ (proc[c].kind = "set" /\ ~proc[c].thrown) => addSetInit(proc[c].p)

\* a pad.del without a function has thrown after another call went to the
\* store, and has left the store as that call made it
C18_Witness ==
  \E c, d \in Calls :
    /\ proc[c].kind = "del" /\ ~proc[c].isFunction /\ proc[c].thrown
    /\ c # d /\ Log(d) # <<>>

(***************************************************************************)
(* C19.  pad.set with an _id under which no pad is stored fails with 'pad  *)
(* does not exist' before any write: the call writes no pad record and no  *)
(* group record.  A pad.set with an _id that succeeds has written the      *)
(* record under that same _id.                                             *)
(***************************************************************************)
FoundMissing(c) ==
  /\ IsUpdate(c) /\ Log(c) # <<>>
  /\ Log(c)[1].op = "exists" /\ Log(c)[1].err = NoErr /\ ~Log(c)[1].res

C19_UpdateOfMissingPad ==
  \A c \in Calls :
    /\ FoundMissing(c) =>
         /\ Done(c) /\ proc[c].err = ErrPadMissing /\ proc[c].cbs = 1
         /\ Len(Log(c)) = 1 /\ Writes(c) = {}
    /\ (IsUpdate(c) /\ Ok(c)) =>
         /\ ~FoundMissing(c)
         /\ proc[c].p._id = proc[c].key /\ proc[c].val._id = proc[c].key
         /\ \E i \in PadWrites(c) : TRUE

\* the update of a pad that a pad.del has removed has been refused
C19_Witness ==
  \E c \in Calls :
    /\ FoundMissing(c) /\ Done(c) /\ proc[c].key = "c0"
    /\ ~Has(padDb, "c0")

(***************************************************************************)
(* C20.  pad.del with a key under which no pad is stored fails with        *)
(* NotFound and changes nothing: the call removes no pad record and reads  *)
(* or writes no group record.                                              *)
(***************************************************************************)
NotFoundDel(c) ==
  /\ IsDel(c) /\ proc[c].isFunction /\ Log(c) # <<>>
  /\ Log(c)[1].op = "get" /\ Log(c)[1].err = ErrNotFound

C20_DeleteOfMissingPad ==
  \A c \in Calls :
    NotFoundDel(c) =>
      /\ Done(c) /\ proc[c].err = ErrNotFound /\ proc[c].cbs = 1
      /\ Len(Log(c)) = 1 /\ Writes(c) = {}
      /\ Ops(c, {"get", "set"}, "group") = {}

\* the second pad.del of the same pad has been refused
C20_Witness ==
  \E c \in Calls :
    /\ NotFoundDel(c) /\ Done(c) /\ proc[c].key = "c0"
    /\ ~Has(padDb, "c0") /\ ~Indexed("g1", "c0")

(***************************************************************************)
(* Vocabulary for the API.                                                 *)
(***************************************************************************)
\* the last request was to a route of the four APIs
Requested == api.route \in {r.name : r \in Routes}
Unguarded == {"GET configuration", "POST user"}

Applied == pure.n > 0
StringsOf(users) ==
  IF users.isArray THEN SelectSeq(users.items, isString) ELSE <<>>

C22_UsersByVisibility ==
  Applied =>
    /\ pure.out.users = IF pure.params.visibility = "restricted"
                        THEN StringsOf(pure.params.users) ELSE <<>>
    /\ pure.params \in PropsArgs

\* a restricted pad given a number and a login keeps the login
C22_Witness ==
  /\ Applied
  /\ pure.params.visibility = "restricted"
  /\ pure.params.users = JsArray(<<JsNumber, "u1">>)
  /\ pure.out.users = <<"u1">>

(***************************************************************************)
(* C23.  Inheritance is not resolved at write time.  Every group holds     *)
(* visibility "private", password "secret" and readonly false, and no call *)
(* gives a password, a readonly or the visibility "private": every stored  *)
(* pad record holds null for password and readonly, and null for the       *)
(* visibility its params left out, never the value of its group; and the   *)
(* three attributes of every group record stay as they were.               *)
(***************************************************************************)
Written == {id \in DOMAIN padDb : padDb[id] # Pad0}

C23_NoInheritanceAtWrite ==
  /\ \A id \in DOMAIN padDb :
       /\ padDb[id].password = JsNull
       /\ padDb[id].readonly = JsNull
       /\ padDb[id].visibility \in {JsNull, "restricted", "public"}
       /\ (id \in Written /\ padDb[id].group = "g2") => padDb[id].visibility = JsNull
  /\ \A c \in Calls :
       (proc[c].kind = "set" /\ ~proc[c].thrown) =>
         /\ proc[c].p.password = JsNull /\ proc[c].p.readonly = JsNull
         /\ proc[c].p.visibility # "private"
  /\ \A gid \in DOMAIN groupDb :
       /\ groupDb[gid].visibility = "private"
       /\ groupDb[gid].password = "secret"
       /\ groupDb[gid].readonly = JsFalse

\* a pad given no visibility is stored with null and indexed by its group,
\* whose visibility is "private"
C23_Witness ==
  \E id \in Written :
    /\ padDb[id].group = "g2" /\ padDb[id].visibility = JsNull
    /\ Indexed("g2", id) /\ groupDb["g2"].visibility = "private"

\* with the values of SpecProps: what params leave out or give wrongly is null
PropsNormalised ==
  Applied =>
    /\ pure.params.visibility \notin {"restricted", "private", "public"} =>
         pure.out.visibility = JsNull
    /\ ~isString(pure.params.password) => pure.out.password = JsNull
    /\ ~isBoolean(pure.params.readonly) => pure.out.readonly = JsNull

(***************************************************************************)
(* C24.  No write when there is nothing to add: when indexGroups, called   *)
(* to add, reads a group whose pads already hold the id of the pad, the    *)
(* group record is not written and the call ends with success at once.     *)
(***************************************************************************)
\* the step of call c is the read of the group, answered without error, for
\* a pad to add whose id the group already holds
ReadsIndexed(c) ==
  /\ proc[c].pc = "db.get.group" /\ ~proc[c].del
  /\ Indexed(proc[c].p.group, proc[c].p._id)
  /\ proc'[c] # proc[c]
  /\ proc'[c].log[Len(proc'[c].log)].err = NoErr

C24_NoWriteWhenIndexed ==
  [][\A c \in Calls :
       ReadsIndexed(c) =>
         /\ proc'[c].pc = "done" /\ proc'[c].err = NoErr /\ proc'[c].cbs = 1
         /\ proc'[c].val = proc[c].p
         /\ groupDb' = groupDb
         /\ \A i \in DOMAIN proc'[c].log :
              ~(proc'[c].log[i].op = "set" /\ proc'[c].log[i].on = "group")]_vars

\* an update of the pad c0 that keeps its group has ended with success, its
\* last store operation being the read of the group
C24_Witness ==
  \E c \in Calls :
    /\ IsUpdate(c) /\ Ok(c) /\ proc[c].key = "c0"
    /\ Last(c).op = "get" /\ Last(c).on = "group"
    /\ Ops(c, {"set"}, "group") = {}
    /\ Indexed("g1", "c0")

(***************************************************************************)
(* C25.  The session follows the login/logout protocol: the session holds  *)
(* a login only when a POST auth/login has answered with success and no    *)
(* logout has answered with success since, so only then does a request     *)
(* pass fn.ensureAuthentificated; otherwise a guarded request gets 401; a  *)
(* logout of a session that is not authenticated answers 400 and leaves    *)
(* the session as it was.                                                  *)
(***************************************************************************)
C25_SessionFollowsProtocol ==
  /\ isAuth(api) => api.granted
  /\ (Requested /\ api.route \notin Unguarded) =>
       (api.status = 401 <=> ~api.granted)
  /\ (api.route = "GET auth/logout" /\ api.status = 400) =>
       api.login = api.before /\ ~isAuth(api)
  /\ (api.route = "GET auth/logout" /\ api.status = 200) => ~isAuth(api)

(***************************************************************************)
(* C26.  Exactly-once completion: every call of pad.set, of pad.del with a *)
(* function as callback and of auth.fn.localFn that has ended has called   *)
(* the caller's callback once, on every path, those of a store error and   *)
(* of a hash error included; a call in progress has not called it yet.     *)
(***************************************************************************)
PadCallsBackOnce ==
  \A c \in Calls :
    /\ (Done(c) /\ ~proc[c].thrown) => proc[c].cbs = 1
    /\ (~Done(c) \/ proc[c].thrown) => proc[c].cbs = 0

AuthCallsBackOnce ==
  /\ Answered => Len(auth.calls) = 1
  /\ ~Answered => auth.calls = <<>>

C26_ExactlyOnce == PadCallsBackOnce /\ AuthCallsBackOnce

(***************************************************************************)
(* C27.  Converse index invariant: when no pad operation is in progress    *)
(* and no store operation has failed, every stored pad record names a      *)
(* group that has a record, and the pads of that group hold the id of the  *)
(* pad.                                                                    *)
(***************************************************************************)
C27_NoOrphanPad ==
  (Quiet /\ faults = 0) =>
    \A id \in DOMAIN padDb :
      Has(groupDb, padDb[id].group) /\ Indexed(padDb[id].group, id)

(***************************************************************************)
(* C28.  No duplicates in the index: the pads of every group record hold   *)
(* no id twice, whatever the interleaving of the calls, and the group      *)
(* record a pad.del writes holds the id of the deleted pad nowhere.        *)
(***************************************************************************)
NoDuplicate(s) == \A i, j \in 1..Len(s) : s[i] = s[j] => i = j

\* call c has written the group record of the pad it deletes
Unindexed(c) ==
  /\ IsDel(c) /\ Log(c) # <<>>
  /\ Last(c).op = "set" /\ Last(c).on = "group" /\ Last(c).err = NoErr

C28_NoDuplicateInIndex ==
  /\ \A gid \in DOMAIN groupDb : NoDuplicate(groupDb[gid].pads)
  /\ \A c \in Calls :
       (proc[c].pc = "db.set.group" \/ Unindexed(c)) =>
         /\ NoDuplicate(proc[c].g.pads)
         /\ proc[c].del => ~includes(proc[c].g.pads, proc[c].p._id)

\* two calls have each added a pad to the same group, which holds two ids
C28_Witness ==
  /\ \E gid \in DOMAIN groupDb : Len(groupDb[gid].pads) >= 2
  /\ \E c, d \in Calls :
       /\ c # d /\ IsSet(c) /\ IsSet(d) /\ Ok(c) /\ Ok(d)
       /\ proc[c].p.group = proc[d].p.group
       /\ Last(c).op = "set" /\ Last(d).op = "set"

====
